---- MODULE Spec2Model ----
(***************************************************************************)
(* The data-access layer of the marketing dashboard: the read operations   *)
(* of services/api.ts (summary_metrics, daily_metrics) and of              *)
(* services/targetingIntel.ts (targeting_intel), each of which asks the    *)
(* Supabase gateway once and falls back to a mock constant.                *)
(*                                                                         *)
(* A call is one action: the gateway's answer is computed from the table   *)
(* as PostgREST computes it, or is a failure (an error value, a rejected   *)
(* promise); the function's code then turns it into the returned value.    *)
(* `last` records the call that has just completed.                        *)
(***************************************************************************)
EXTENDS Integers, Sequences, FiniteSets, TLC

VARIABLES connected, summary_metrics, daily_metrics, targeting_intel, last,
          adSurveillance, targetingIntelView, auth, inflight

\* the callers of the data-access layer: the two dashboard components, the
\* authentication context, and calls of the layer that are in flight
callers == <<adSurveillance, targetingIntelView, auth, inflight>>

vars == <<connected, summary_metrics, daily_metrics, targeting_intel, last, callers>>

(* ---- bounds of the model ---- *)
MaxSummaryRows == 2
MaxDailyRows == 11
MaxTargetRows == 2
MaxTime == 2

(* ---- values crossing the gateway and the function boundary ---- *)
Null == [kind |-> "null"]
Row(r) == [kind |-> "row", row |-> r]
List(s) == [kind |-> "list", list |-> s]
\* the result object of a connection probe
Probe(r) == [kind |-> "probe", probe |-> r]

\* a numeric column holding SQL NULL
NullNum == -1

Times == 1..MaxTime

(* ---- mock data (fallback) ---- *)
mockSummaryMetrics ==
  [id |-> 0, total_competitor_spend |-> 124300, created_at |-> 0]

mockDailyMetrics == <<>>

mockTargetingIntelData ==
  [id |-> 0, competitor_id |-> 11, competitor_name |-> <<"N", "i", "k", "e">>,
   created_at |-> 0, updated_at |-> 0]

(* ---- the tables the model starts from ---- *)
\* every table with at most one row per id: f[i] = <<0, 0>> when id i is
\* absent; the spend column of a row holds a number or SQL NULL
SummaryTables ==
  {{[id |-> i, total_competitor_spend |-> f[i][2], created_at |-> f[i][1]]
      : i \in {j \in 1..MaxSummaryRows : f[j][1] # 0}}
     : f \in [1..MaxSummaryRows ->
                {<<0, 0>>} \cup (Times \X {1000, NullNum})]}

Dates == {"2024-01-01", "2024-01-02"}

\* the rows of daily_metrics, by content (the embedded competitor is the join)
DailyKinds ==
  << [date |-> "2024-01-01", daily_spend |-> NullNum, daily_impressions |-> NullNum,
      daily_ctr |-> NullNum, competitor |-> Null],
     [date |-> "2024-01-01", daily_spend |-> 100, daily_impressions |-> 5000,
      daily_ctr |-> 2, competitor |-> Row([id |-> 1, name |-> "Nike"])],
     [date |-> "2024-01-01", daily_spend |-> 250, daily_impressions |-> NullNum,
      daily_ctr |-> 3, competitor |-> Row([id |-> 2, name |-> "Adidas"])],
     [date |-> "2024-01-02", daily_spend |-> 100, daily_impressions |-> 700,
      daily_ctr |-> NullNum, competitor |-> Row([id |-> 1, name |-> "Nike"])] >>

RECURSIVE Sum(_, _)
Sum(f, n) == IF n = 0 THEN 0 ELSE f[n] + Sum(f, n - 1)

RECURSIVE KindRows(_, _)
\* cnt[k] rows of each kind, one after the other
KindRows(cnt, k) ==
  IF k = 0 THEN <<>>
  ELSE KindRows(cnt, k - 1) \o [i \in 1..cnt[k] |-> DailyKinds[k]]

DailyTableOf(cnt) ==
  LET rows == KindRows(cnt, Len(DailyKinds))
  IN {[id |-> i, date |-> rows[i].date, daily_spend |-> rows[i].daily_spend,
       daily_impressions |-> rows[i].daily_impressions,
       daily_ctr |-> rows[i].daily_ctr, competitor |-> rows[i].competitor]
        : i \in 1..Len(rows)}

\* tables of at most MaxDailyRows rows: any number of rows of the second kind,
\* at most one of each other kind
DailyTables ==
  {DailyTableOf(cnt) :
     cnt \in {c \in [1..Len(DailyKinds) -> 0..MaxDailyRows] :
                /\ Sum(c, Len(DailyKinds)) <= MaxDailyRows
                /\ \A k \in 1..Len(DailyKinds) : k # 2 => c[k] <= 1}}

\* the competitors targeting rows are about
Competitors ==
  << [id |-> 11, name |-> <<"N", "i">>],
     [id |-> 12, name |-> <<"a", "_">>] >>

TargetingTables ==
  {{[id |-> i, competitor_id |-> Competitors[f[i][1]].id,
     competitor_name |-> Competitors[f[i][1]].name, created_at |-> f[i][2],
     updated_at |-> f[i][2]]
      : i \in {j \in 1..MaxTargetRows : f[j][1] # 0}}
     : f \in [1..MaxTargetRows ->
                {<<0, 0>>} \cup ((1..Len(Competitors)) \X Times)]}

(* ---- the gateway: one round trip ---- *)
NoResp == [outcome |-> "none", error |-> FALSE, data |-> Null]
Failed == [outcome |-> "failed", error |-> TRUE, data |-> Null]
Thrown == [outcome |-> "thrown", error |-> FALSE, data |-> Null]
Answered(rows) == [outcome |-> "answered", error |-> FALSE, data |-> List(rows)]

\* what a select may come back with, given the row lists the store may answer
SelectResponses(answers) == {Failed, Thrown} \cup {Answered(s) : s \in answers}

\* .order('created_at', { ascending: false }): every ordering of the rows the
\* database may produce (rows of equal created_at come in either order)
OrderByCreatedAtDesc(rows) ==
  {s \in [1..Cardinality(rows) -> rows] :
     /\ \A i, j \in 1..Cardinality(rows) : i # j => s[i] # s[j]
     /\ \A i, j \in 1..Cardinality(rows) : i < j => s[i].created_at >= s[j].created_at}

\* the rows of a select without an order clause, in any order
AnyOrder(rows) ==
  {s \in [1..Cardinality(rows) -> rows] :
     \A i, j \in 1..Cardinality(rows) : i # j => s[i] # s[j]}

\* .limit(n)
Limit(s, n) == IF Len(s) <= n THEN s ELSE SubSeq(s, 1, n)

(* ---- results of a call ---- *)
\* calls counts the gateway round trips the call has made
Return(v) == [threw |-> FALSE, value |-> v, calls |-> 0]
Raise == [threw |-> TRUE, value |-> Null, calls |-> 0]

\* the part of a function that runs from its `await supabase...` on
Awaited(ret) == [ret EXCEPT !.calls = @ + 1]

Call(op, resp, ret) ==
  [op |-> op, date |-> "", today |-> "", cid |-> 0, name |-> <<>>,
   calls |-> ret.calls, resp |-> resp, resp2 |-> NoResp,
   threw |-> ret.threw, value |-> ret.value]

\* the answers open to a call: none when the function never reaches the gateway
Gateway(responses) == IF connected THEN responses ELSE {NoResp}

(* ---- fetchSummaryMetrics ---- *)
\* mutant: the order clause is missing
SummaryQuery_unordered ==
  SelectResponses({Limit(s, 1) : s \in AnyOrder(summary_metrics)})

SummaryQuery ==
  SelectResponses({Limit(s, 1) : s \in OrderByCreatedAtDesc(summary_metrics)})

fetchSummaryMetrics_try(resp) ==
  IF resp.outcome = "thrown" THEN Raise
  ELSE IF resp.error \/ resp.data = Null \/ Len(resp.data.list) = 0
       THEN Return(Row(mockSummaryMetrics))
       ELSE Return(Row(resp.data.list[1]))

fetchSummaryMetrics_catch(ret) ==
  IF ret.threw THEN Return(Row(mockSummaryMetrics)) ELSE ret

\* mutant: a failed query is sent a second time
fetchSummaryMetrics_retry(resp) ==
  IF ~connected THEN Return(Row(mockSummaryMetrics))
  ELSE IF resp.outcome = "answered"
       THEN Awaited(fetchSummaryMetrics_catch(fetchSummaryMetrics_try(resp)))
       ELSE Awaited(Awaited(fetchSummaryMetrics_catch(fetchSummaryMetrics_try(resp))))

fetchSummaryMetrics(resp) ==
  IF ~connected THEN Return(Row(mockSummaryMetrics))
  ELSE Awaited(fetchSummaryMetrics_catch(fetchSummaryMetrics_try(resp)))

FetchSummaryMetrics ==
  /\ \E resp \in Gateway(SummaryQuery) :
       last' = Call("fetchSummaryMetrics", resp, fetchSummaryMetrics(resp))
  /\ UNCHANGED <<connected, summary_metrics, daily_metrics, targeting_intel, callers>>

(* ---- fetchDailyMetrics ---- *)
DailyLimit == 10

\* ORDER BY daily_spend DESC as PostgreSQL sorts it: NULLs first, then the
\* greater spend first; rows of equal spend are taken here in id order
SpendDescBefore(a, b) ==
  IF a.daily_spend = b.daily_spend THEN a.id < b.id
  ELSE IF a.daily_spend = NullNum THEN TRUE
  ELSE IF b.daily_spend = NullNum THEN FALSE
  ELSE a.daily_spend > b.daily_spend

RECURSIVE OrderByDailySpendDesc(_)
OrderByDailySpendDesc(rows) ==
  IF rows = {} THEN <<>>
  ELSE LET first == CHOOSE r \in rows : \A o \in rows \ {r} : SpendDescBefore(r, o)
       IN <<first>> \o OrderByDailySpendDesc(rows \ {first})

\* mutant: the date filter is missing
DailyQuery_unfiltered(targetDate) ==
  SelectResponses({Limit(OrderByDailySpendDesc(daily_metrics), DailyLimit)})

DailyQuery(targetDate) ==
  SelectResponses(
    {Limit(OrderByDailySpendDesc({r \in daily_metrics : r.date = targetDate}),
           DailyLimit)})

\* date || new Date().toISOString().split('T')[0]
TargetDate(date, today) == IF date = "" THEN today ELSE date

OrZero(n) == IF n = NullNum THEN 0 ELSE n

MapDailyRow(row) ==
  [id |-> row.id,
   date |-> row.date,
   competitor_name |->
     IF row.competitor = Null THEN "Unknown" ELSE row.competitor.row.name,
   platform |-> "Mixed",
   status |-> "ACTIVE",
   daily_spend |-> OrZero(row.daily_spend),
   daily_impressions |-> OrZero(row.daily_impressions),
   daily_ctr |-> OrZero(row.daily_ctr)]

fetchDailyMetrics_try(resp) ==
  IF resp.outcome = "thrown" THEN Raise
  ELSE IF resp.error \/ resp.data = Null
       THEN Return(List(mockDailyMetrics))
       ELSE Return(List([i \in 1..Len(resp.data.list) |->
                           MapDailyRow(resp.data.list[i])]))

\* mutant: the exception is passed on to the caller
fetchDailyMetrics_rethrow(ret) == ret

fetchDailyMetrics_catch(ret) ==
  IF ret.threw THEN Return(List(mockDailyMetrics)) ELSE ret

fetchDailyMetrics(resp) ==
  IF ~connected THEN Return(List(mockDailyMetrics))
  ELSE Awaited(fetchDailyMetrics_catch(fetchDailyMetrics_try(resp)))

FetchDailyMetrics ==
  /\ \E date \in {""} \cup Dates :
       \E today \in IF date = "" /\ connected THEN Dates ELSE {""} :
         \E resp \in Gateway(DailyQuery(TargetDate(date, today))) :
           last' = [Call("fetchDailyMetrics", resp, fetchDailyMetrics(resp))
                      EXCEPT !.date = date, !.today = today]
  /\ UNCHANGED <<connected, summary_metrics, daily_metrics, targeting_intel, callers>>

(* ---- the targeting_intel queries ---- *)
\* mutant: .maybeSingle(), for which no row is not an error
MaybeSingle(resp) ==
  IF resp.outcome # "answered" THEN resp
  ELSE IF Len(resp.data.list) = 1
       THEN [outcome |-> "answered", error |-> FALSE, data |-> Row(resp.data.list[1])]
       ELSE IF Len(resp.data.list) = 0
            THEN [outcome |-> "answered", error |-> FALSE, data |-> Null]
            ELSE [outcome |-> "answered", error |-> TRUE, data |-> Null]

\* .single(): the one row as an object; PostgREST answers with an error
\* (PGRST116) when the result has no row or more than one
Single(resp) ==
  IF resp.outcome # "answered" THEN resp
  ELSE IF Len(resp.data.list) = 1
       THEN [outcome |-> "answered", error |-> FALSE, data |-> Row(resp.data.list[1])]
       ELSE [outcome |-> "answered", error |-> TRUE, data |-> Null]

UpperCase ==
  <<"A", "B", "C", "D", "E", "F", "G", "H", "I", "J", "K", "L", "M",
    "N", "O", "P", "Q", "R", "S", "T", "U", "V", "W", "X", "Y", "Z">>
LowerCase ==
  <<"a", "b", "c", "d", "e", "f", "g", "h", "i", "j", "k", "l", "m",
    "n", "o", "p", "q", "r", "s", "t", "u", "v", "w", "x", "y", "z">>

Lower(c) ==
  IF \E i \in 1..Len(UpperCase) : UpperCase[i] = c
  THEN LowerCase[CHOOSE i \in 1..Len(UpperCase) : UpperCase[i] = c]
  ELSE c

RECURSIVE ILike(_, _)
\* s ILIKE pat: % (and PostgREST's alias *) is any run of characters, _ is any
\* one character, a backslash takes the next character literally
ILike(s, pat) ==
  IF pat = <<>> THEN s = <<>>
  ELSE IF pat[1] \in {"%", "*"}
       THEN ILike(s, Tail(pat)) \/ (s # <<>> /\ ILike(Tail(s), pat))
  ELSE IF s = <<>> THEN FALSE
  ELSE IF pat[1] = "_" THEN ILike(Tail(s), Tail(pat))
  ELSE IF pat[1] = "\\" /\ Len(pat) >= 2
       THEN Lower(pat[2]) = Lower(s[1]) /\ ILike(Tail(s), Tail(Tail(pat)))
  ELSE Lower(pat[1]) = Lower(s[1]) /\ ILike(Tail(s), Tail(pat))

\* mutant: the leading % is missing
NamePattern_prefix(competitorName) == competitorName \o <<"%">>

\* `%${competitorName}%`
NamePattern(competitorName) == <<"%">> \o competitorName \o <<"%">>

(* ---- fetchAllTargetingIntel ---- *)
\* mutant: the order clause is missing
AllTargetingQuery_unordered == SelectResponses(AnyOrder(targeting_intel))

AllTargetingQuery == SelectResponses(OrderByCreatedAtDesc(targeting_intel))

\* mutant: an empty result is returned as it is
fetchAllTargetingIntel_try_noEmptyCheck(resp) ==
  IF resp.outcome = "thrown" THEN Raise
  ELSE IF resp.error \/ resp.data = Null THEN Return(List(<<mockTargetingIntelData>>))
  ELSE Return(resp.data)

fetchAllTargetingIntel_try(resp) ==
  IF resp.outcome = "thrown" THEN Raise
  ELSE IF resp.error THEN Return(List(<<mockTargetingIntelData>>))
  ELSE IF resp.data = Null \/ Len(resp.data.list) = 0
       THEN Return(List(<<mockTargetingIntelData>>))
  ELSE Return(resp.data)

fetchAllTargetingIntel_catch(ret) ==
  IF ret.threw THEN Return(List(<<mockTargetingIntelData>>)) ELSE ret

\* mutant: the availability check is missing
fetchAllTargetingIntel_unguarded(resp) ==
  Awaited(fetchAllTargetingIntel_catch(fetchAllTargetingIntel_try(resp)))

fetchAllTargetingIntel(resp) ==
  IF ~connected THEN Return(List(<<mockTargetingIntelData>>))
  ELSE Awaited(fetchAllTargetingIntel_catch(fetchAllTargetingIntel_try(resp)))

FetchAllTargetingIntel ==
  /\ \E resp \in Gateway(AllTargetingQuery) :
       last' = Call("fetchAllTargetingIntel", resp, fetchAllTargetingIntel(resp))
  /\ UNCHANGED <<connected, summary_metrics, daily_metrics, targeting_intel, callers>>

(* ---- the single-row targeting reads share one body ---- *)
\* if (error) return mock; if (!data) return null; return data
SingleRowResult(resp) ==
  IF resp.outcome = "thrown" THEN Raise
  ELSE IF resp.error THEN Return(Row(mockTargetingIntelData))
  ELSE IF resp.data = Null THEN Return(Null)
  ELSE Return(resp.data)

\* mutant: the exception is passed on to the caller
SingleRowCatch_rethrow(ret) == ret

SingleRowCatch(ret) ==
  IF ret.threw THEN Return(Row(mockTargetingIntelData)) ELSE ret

(* ---- fetchTargetingIntelByCompetitorId ---- *)
\* the ids a caller may pass: a competitor's id, or the id of a targeting row
CompetitorIds ==
  {Competitors[c].id : c \in 1..Len(Competitors)} \cup (1..MaxTargetRows)

ByCompetitorIdQuery(competitorId) ==
  {Single(resp) : resp \in SelectResponses(
     AnyOrder({r \in targeting_intel : r.competitor_id = competitorId}))}

fetchTargetingIntelByCompetitorId(resp) ==
  IF ~connected THEN Return(Row(mockTargetingIntelData))
  ELSE Awaited(SingleRowCatch(SingleRowResult(resp)))

FetchTargetingIntelByCompetitorId ==
  /\ \E competitorId \in CompetitorIds :
       \E resp \in Gateway(ByCompetitorIdQuery(competitorId)) :
         last' = [Call("fetchTargetingIntelByCompetitorId", resp,
                       fetchTargetingIntelByCompetitorId(resp))
                    EXCEPT !.cid = competitorId]
  /\ UNCHANGED <<connected, summary_metrics, daily_metrics, targeting_intel, callers>>

(* ---- fetchLatestTargetingIntel ---- *)
\* mutant: ascending instead of descending order
LatestTargetingQuery_ascending ==
  {Single(resp) : resp \in SelectResponses(
     {Limit(s, 1) : s \in {t \in AnyOrder(targeting_intel) :
        \A i, j \in 1..Len(t) : i < j => t[i].created_at <= t[j].created_at}})}

LatestTargetingQuery ==
  {Single(resp) : resp \in SelectResponses(
     {Limit(s, 1) : s \in OrderByCreatedAtDesc(targeting_intel)})}

fetchLatestTargetingIntel(resp) ==
  IF ~connected THEN Return(Row(mockTargetingIntelData))
  ELSE Awaited(SingleRowCatch(SingleRowResult(resp)))

FetchLatestTargetingIntel ==
  /\ \E resp \in Gateway(LatestTargetingQuery) :
       last' = Call("fetchLatestTargetingIntel", resp, fetchLatestTargetingIntel(resp))
  /\ UNCHANGED <<connected, summary_metrics, daily_metrics, targeting_intel, callers>>

(* ---- fetchTargetingIntelByCompetitorName ---- *)
QueryNames ==
  {<<"n", "i">>, <<"I">>, <<"_">>, <<"%">>, <<"\\">>, <<"z">>, <<>>}

ByCompetitorNameQuery(competitorName) ==
  {Single(resp) : resp \in SelectResponses(
     {Limit(s, 1) : s \in OrderByCreatedAtDesc(
        {r \in targeting_intel :
           ILike(r.competitor_name, NamePattern(competitorName))})})}

fetchTargetingIntelByCompetitorName(resp) ==
  IF ~connected THEN Return(Row(mockTargetingIntelData))
  ELSE Awaited(SingleRowCatch(SingleRowResult(resp)))

FetchTargetingIntelByCompetitorName ==
  /\ \E competitorName \in QueryNames :
       \E resp \in Gateway(ByCompetitorNameQuery(competitorName)) :
         last' = [Call("fetchTargetingIntelByCompetitorName", resp,
                       fetchTargetingIntelByCompetitorName(resp))
                    EXCEPT !.name = competitorName]
  /\ UNCHANGED <<connected, summary_metrics, daily_metrics, targeting_intel, callers>>

(* ---- createTargetingIntel ---- *)
\* the row sent: the input with the two client timestamps (both read from the
\* clock in the same object literal, at the instant now), and the id the
\* database gives it
NewRow(id, input, now) ==
  [id |-> id, competitor_id |-> input.id, competitor_name |-> input.name,
   created_at |-> now, updated_at |-> now]

\* .insert([row]).select().single(): the row is stored and comes back, or the
\* request fails; of a request that fails in transit the row may have been stored
InsertOutcomes(row) ==
  {[resp |-> [outcome |-> "answered", error |-> FALSE, data |-> Row(row)],
    stored |-> TRUE]}
    \cup {[resp |-> r, stored |-> b] : r \in {Failed, Thrown}, b \in BOOLEAN}

\* mutant: the mock record is returned in place of the inserted row
createTargetingIntel_try_returnsMock(resp) ==
  IF resp.outcome = "thrown" THEN Raise
  ELSE IF resp.error THEN Return(Null)
  ELSE Return(Row(mockTargetingIntelData))

createTargetingIntel_try(resp) ==
  IF resp.outcome = "thrown" THEN Raise
  ELSE IF resp.error THEN Return(Null)
  ELSE Return(resp.data)

\* mutant: the catch block of the read operations, which returns the mock
createTargetingIntel_catch_mock(ret) ==
  IF ret.threw THEN Return(Row(mockTargetingIntelData)) ELSE ret

createTargetingIntel_catch(ret) ==
  IF ret.threw THEN Return(Null) ELSE ret

createTargetingIntel(resp) ==
  IF ~connected THEN Return(Null)
  ELSE Awaited(createTargetingIntel_catch(createTargetingIntel_try(resp)))

CreateTargetingIntel ==
  \E c \in 1..Len(Competitors) :
    \/ /\ ~connected
       /\ last' = [Call("createTargetingIntel", NoResp, createTargetingIntel(NoResp))
                     EXCEPT !.cid = Competitors[c].id, !.name = Competitors[c].name]
       /\ UNCHANGED <<connected, summary_metrics, daily_metrics, targeting_intel, callers>>
    \/ /\ connected
       /\ \E id \in (1..MaxTargetRows) \ {r.id : r \in targeting_intel} :
          \E now \in Times :
          \E out \in InsertOutcomes(NewRow(id, Competitors[c], now)) :
            /\ last' = [Call("createTargetingIntel", out.resp,
                             createTargetingIntel(out.resp))
                          EXCEPT !.cid = Competitors[c].id,
                                 !.name = Competitors[c].name]
            /\ targeting_intel' =
                 IF out.stored
                 THEN targeting_intel \cup {NewRow(id, Competitors[c], now)}
                 ELSE targeting_intel
       /\ UNCHANGED <<connected, summary_metrics, daily_metrics, callers>>

(* ---- the system ---- *)
(* ---- the connection probes ---- *)
\* the `error` member of a probe result: absent, the fixed text of the
\* unavailable branch, or the message of the error the gateway raised
NoError == "(absent)"
NotConnected == "Not connected to Supabase"
GatewayMessage == "(message of the gateway error)"

\* .select('*', { count: 'exact', head: true }): the number of rows and no
\* row data; a request that fails carries count: null
CountQuery(table) ==
  {Failed, Thrown,
   [outcome |-> "answered", error |-> FALSE, data |-> Null, count |-> Cardinality(table)]}

\* count || 0
CountOrZero(resp) == IF "count" \in DOMAIN resp THEN resp.count ELSE 0

(* ---- testDatabaseConnection ---- *)
\* the second query is sent only if the first await did not throw
SecondQuery(resp, responses) ==
  IF connected /\ resp.outcome # "thrown" THEN responses ELSE {NoResp}

testDatabaseConnection_try(resp, resp2) ==
  IF resp.outcome = "thrown" THEN Awaited(Raise)
  ELSE IF resp2.outcome = "thrown" THEN Awaited(Awaited(Raise))
  ELSE Awaited(Awaited(Return(Probe(
         [connected |-> TRUE, summaryCount |-> CountOrZero(resp),
          dailyCount |-> CountOrZero(resp2), error |-> NoError]))))

testDatabaseConnection_catch(ret) ==
  IF ret.threw
  THEN [ret EXCEPT !.threw = FALSE,
                   !.value = Probe([connected |-> FALSE, summaryCount |-> 0,
                                    dailyCount |-> 0, error |-> GatewayMessage])]
  ELSE ret

\* mutant: the availability check is missing
testDatabaseConnection_unguarded(resp, resp2) ==
  testDatabaseConnection_catch(testDatabaseConnection_try(resp, resp2))

testDatabaseConnection(resp, resp2) ==
  IF ~connected
  THEN Return(Probe([connected |-> FALSE, summaryCount |-> 0, dailyCount |-> 0,
                     error |-> NotConnected]))
  ELSE testDatabaseConnection_catch(testDatabaseConnection_try(resp, resp2))

TestDatabaseConnection ==
  /\ \E resp \in Gateway(CountQuery(summary_metrics)) :
       \E resp2 \in SecondQuery(resp, CountQuery(daily_metrics)) :
         last' = [Call("testDatabaseConnection", resp,
                       testDatabaseConnection(resp, resp2))
                    EXCEPT !.resp2 = resp2]
  /\ UNCHANGED <<connected, summary_metrics, daily_metrics, targeting_intel, callers>>

(* ---- testTargetingIntelConnection ---- *)
\* `${competitor_name} (${new Date(created_at).toLocaleDateString()})`
LatestRecordLabel(row) ==
  [competitor_name |-> row.competitor_name, created_at |-> row.created_at]

\* the second query is sent only if the count query neither threw nor
\* reported an error
LatestRecordQuery(resp, responses) ==
  IF connected /\ resp.outcome = "answered" THEN responses ELSE {NoResp}

testTargetingIntelConnection_try(resp, resp2) ==
  IF resp.outcome = "thrown" THEN Awaited(Raise)
  ELSE IF resp.error
       THEN Awaited(Return(Probe(
              [connected |-> FALSE, recordCount |-> 0, latestRecord |-> Null,
               error |-> GatewayMessage])))
  ELSE IF resp2.outcome = "thrown" THEN Awaited(Awaited(Raise))
  ELSE Awaited(Awaited(Return(Probe(
         [connected |-> TRUE, recordCount |-> CountOrZero(resp),
          latestRecord |-> IF resp2.data = Null THEN Null
                           ELSE Row(LatestRecordLabel(resp2.data.row)),
          error |-> NoError]))))

testTargetingIntelConnection_catch(ret) ==
  IF ret.threw
  THEN [ret EXCEPT !.threw = FALSE,
                   !.value = Probe([connected |-> FALSE, recordCount |-> 0,
                                    latestRecord |-> Null, error |-> GatewayMessage])]
  ELSE ret

testTargetingIntelConnection(resp, resp2) ==
  IF ~connected
  THEN Return(Probe([connected |-> FALSE, recordCount |-> 0, latestRecord |-> Null,
                     error |-> NotConnected]))
  ELSE testTargetingIntelConnection_catch(testTargetingIntelConnection_try(resp, resp2))

\* mutant: the probe writes a row to see whether the table accepts it
TestTargetingIntelConnection_writes ==
  /\ \E resp \in Gateway(CountQuery(targeting_intel)) :
       \E resp2 \in LatestRecordQuery(resp, LatestTargetingQuery) :
         last' = [Call("testTargetingIntelConnection", resp,
                       testTargetingIntelConnection(resp, resp2))
                    EXCEPT !.resp2 = resp2]
  /\ targeting_intel' = IF connected THEN targeting_intel \cup {mockTargetingIntelData}
                        ELSE targeting_intel
  /\ UNCHANGED <<connected, summary_metrics, daily_metrics, callers>>

TestTargetingIntelConnection ==
  /\ \E resp \in Gateway(CountQuery(targeting_intel)) :
       \E resp2 \in LatestRecordQuery(resp, LatestTargetingQuery) :
         last' = [Call("testTargetingIntelConnection", resp,
                       testTargetingIntelConnection(resp, resp2))
                    EXCEPT !.resp2 = resp2]
  /\ UNCHANGED <<connected, summary_metrics, daily_metrics, targeting_intel, callers>>

(***************************************************************************)
(* components/AdSurveillance.tsx                                           *)
(*                                                                         *)
(* Every step is one task of the event loop: an event handler or effect up *)
(* to its first await on the network, or the continuation of an await when *)
(* the response arrives. With the gateway unavailable the layer's          *)
(* functions return without a round trip, so their awaits continue within  *)
(* the same task.                                                          *)
(***************************************************************************)
MaxInvocations == 2

RunIds == 1..MaxInvocations

IdleRun == [pc |-> "idle", kind |-> "none", load |-> 0]

\* the state after the first render; runs are the handler invocations so far,
\* issued and arrived number the loadData calls in the order they were made,
\* received are the values `summary` and `daily` of the loadData that resumed last
AdSurveillanceMounted ==
  [loading |-> TRUE, summaryData |-> Null, dailyMetrics |-> List(<<>>),
   dbStatus |-> "checking", started |-> 0, issued |-> 0, arrived |-> 0,
   received |-> [summary |-> Null, daily |-> List(<<>>)],
   runs |-> [i \in RunIds |-> IdleRun]]

\* a handler is invoked
StartRun(ad, kind, pc) ==
  [ad EXCEPT !.started = @ + 1,
             !.runs[ad.started + 1] = [pc |-> pc, kind |-> kind, load |-> 0]]

\* loadData up to its await: setLoading(true) and the two fetches are sent
loadData_start(ad, i) ==
  [ad EXCEPT !.loading = TRUE, !.issued = @ + 1,
             !.runs[i].pc = "loading", !.runs[i].load = ad.issued + 1]

\* mutant: a response is dropped when a later loadData has been issued
loadData_resume_latestOnly(ad, i, summary, daily) ==
  IF ad.runs[i].load < ad.issued
  THEN [ad EXCEPT !.loading = FALSE, !.arrived = ad.runs[i].load, !.runs[i].pc = "done",
                  !.received = [summary |-> summary.value, daily |-> daily.value]]
  ELSE [ad EXCEPT !.summaryData = summary.value, !.dailyMetrics = daily.value,
                  !.loading = FALSE, !.arrived = ad.runs[i].load,
                  !.runs[i].pc = "done",
                  !.received = [summary |-> summary.value, daily |-> daily.value]]

\* loadData from its await on: Promise.all gives both results or rejects; the
\* finally block clears the loading flag
loadData_resume(ad, i, summary, daily) ==
  IF summary.threw \/ daily.threw
  THEN [ad EXCEPT !.loading = FALSE, !.arrived = ad.runs[i].load, !.runs[i].pc = "done",
                  !.received = [summary |-> summary.value, daily |-> daily.value]]
  ELSE [ad EXCEPT !.summaryData = summary.value, !.dailyMetrics = daily.value,
                  !.loading = FALSE, !.arrived = ad.runs[i].load,
                  !.runs[i].pc = "done",
                  !.received = [summary |-> summary.value, daily |-> daily.value]]

\* loadData called with the gateway unavailable: both fetches return at once
loadData_offline(ad, i) ==
  loadData_resume(loadData_start(ad, i), i,
                  fetchSummaryMetrics(NoResp), fetchDailyMetrics(NoResp))

\* loadData is called: it stops at its await when the gateway is available
loadData(ad, i) ==
  IF connected THEN loadData_start(ad, i) ELSE loadData_offline(ad, i)

\* checkDatabaseStatus from its await on
checkDatabaseStatus_resume(ad, probe) ==
  [ad EXCEPT !.dbStatus = IF probe.value.probe.connected THEN "connected"
                          ELSE "disconnected"]

\* initialize from `await checkDatabaseStatus()` on: a probe that rejects ends
\* initialize before loadData
initialize_resume(ad, i, probe) ==
  IF probe.threw THEN [ad EXCEPT !.runs[i].pc = "done"]
  ELSE loadData(checkDatabaseStatus_resume(ad, probe), i)

\* useEffect(initialize, [selectedPeriod]): on mount and on every change of the
\* selected period
Initialize ==
  /\ adSurveillance.started < MaxInvocations
  /\ LET i == adSurveillance.started + 1
         ad == [StartRun(adSurveillance, "initialize", "checking")
                  EXCEPT !.dbStatus = "checking"]
     IN adSurveillance' =
          IF connected THEN ad
          ELSE initialize_resume(ad, i, testDatabaseConnection(NoResp, NoResp))
  /\ UNCHANGED <<connected, summary_metrics, daily_metrics, targeting_intel, last,
                 targetingIntelView, auth, inflight>>

\* the probe of an initialize comes back
CheckDatabaseStatusDone(i) ==
  /\ adSurveillance.runs[i].pc = "checking"
  /\ \E resp \in CountQuery(summary_metrics) :
       \E resp2 \in SecondQuery(resp, CountQuery(daily_metrics)) :
         adSurveillance' =
           initialize_resume(adSurveillance, i, testDatabaseConnection(resp, resp2))
  /\ UNCHANGED <<connected, summary_metrics, daily_metrics, targeting_intel, last,
                 targetingIntelView, auth, inflight>>

\* the refresh button: onClick={checkDatabaseStatus}
RefreshStatus ==
  /\ 1 <= adSurveillance.started /\ adSurveillance.started < MaxInvocations
  /\ LET i == adSurveillance.started + 1
         ad == [StartRun(adSurveillance, "refresh", "refreshing")
                  EXCEPT !.dbStatus = "checking"]
     IN adSurveillance' =
          IF connected THEN ad
          ELSE [checkDatabaseStatus_resume(ad, testDatabaseConnection(NoResp, NoResp))
                  EXCEPT !.runs[i].pc = "done"]
  /\ UNCHANGED <<connected, summary_metrics, daily_metrics, targeting_intel, last,
                 targetingIntelView, auth, inflight>>

RefreshStatusDone(i) ==
  /\ adSurveillance.runs[i].pc = "refreshing"
  /\ \E resp \in CountQuery(summary_metrics) :
       \E resp2 \in SecondQuery(resp, CountQuery(daily_metrics)) :
         LET probe == testDatabaseConnection(resp, resp2)
         IN adSurveillance' =
              IF probe.threw THEN [adSurveillance EXCEPT !.runs[i].pc = "done"]
              ELSE [checkDatabaseStatus_resume(adSurveillance, probe)
                      EXCEPT !.runs[i].pc = "done"]
  /\ UNCHANGED <<connected, summary_metrics, daily_metrics, targeting_intel, last,
                 targetingIntelView, auth, inflight>>

\* handleAddCompetitor with a name filled in, up to `await addCompetitor(...)`
HandleAddCompetitor ==
  /\ 1 <= adSurveillance.started /\ adSurveillance.started < MaxInvocations
  /\ adSurveillance' = StartRun(adSurveillance, "add", "adding")
  /\ UNCHANGED <<connected, summary_metrics, daily_metrics, targeting_intel, last,
                 targetingIntelView, auth, inflight>>

\* addCompetitor settles: resolved, the data is loaded again; rejected, the
\* catch block ends the handler
AddCompetitorDone(i) ==
  /\ adSurveillance.runs[i].pc = "adding"
  /\ \E resolved \in BOOLEAN :
       adSurveillance' = IF resolved THEN loadData(adSurveillance, i)
                         ELSE [adSurveillance EXCEPT !.runs[i].pc = "done"]
  /\ UNCHANGED <<connected, summary_metrics, daily_metrics, targeting_intel, last,
                 targetingIntelView, auth, inflight>>

\* both fetches of a loadData have come back
LoadDataDone(i) ==
  /\ adSurveillance.runs[i].pc = "loading"
  /\ \E resp \in SummaryQuery :
       \E today \in Dates :
         \E respDaily \in DailyQuery(TargetDate("", today)) :
           adSurveillance' = loadData_resume(adSurveillance, i,
                               fetchSummaryMetrics(resp), fetchDailyMetrics(respDaily))
  /\ UNCHANGED <<connected, summary_metrics, daily_metrics, targeting_intel, last,
                 targetingIntelView, auth, inflight>>

(***************************************************************************)
(* components/TargetingIntel.tsx                                           *)
(***************************************************************************)
\* before the component is mounted; useState gives loading = true
TargetingIntelUnmounted ==
  [pc |-> "unmounted", loading |-> TRUE, error |-> FALSE, data |-> Null]

\* loadData of TargetingIntel from its await on
targetingLoadData_resume(view, latest) ==
  IF latest.threw
  THEN [view EXCEPT !.error = TRUE, !.loading = FALSE, !.pc = "shown"]
  ELSE [view EXCEPT !.data = latest.value, !.loading = FALSE, !.pc = "shown"]

\* useEffect(() => { loadData() }, []). The retry button (line 72) is rendered
\* only when error is set or data is null, which no load produces.
MountTargetingIntel ==
  /\ targetingIntelView.pc = "unmounted"
  /\ LET view == [targetingIntelView EXCEPT !.pc = "loading", !.loading = TRUE]
     IN targetingIntelView' =
          IF connected THEN view
          ELSE targetingLoadData_resume(view, fetchLatestTargetingIntel(NoResp))
  /\ UNCHANGED <<connected, summary_metrics, daily_metrics, targeting_intel, last,
                 adSurveillance, auth, inflight>>

TargetingLoadDataDone ==
  /\ targetingIntelView.pc = "loading"
  /\ \E resp \in LatestTargetingQuery :
       targetingIntelView' =
         targetingLoadData_resume(targetingIntelView, fetchLatestTargetingIntel(resp))
  /\ UNCHANGED <<connected, summary_metrics, daily_metrics, targeting_intel, last,
                 adSurveillance, auth, inflight>>

(***************************************************************************)
(* context/AuthContext.tsx: AuthProvider                                   *)
(*                                                                         *)
(* The users table, the provider's state, localStorage, and the calls of   *)
(* signup, login and completeOnboarding that wait for the gateway. A step  *)
(* is one task of the event loop, as for the components.                   *)
(***************************************************************************)
MaxSignups == 2

\* email.toLowerCase().trim()
ToLowerCase(s) == [i \in 1..Len(s) |-> Lower(s[i])]

RECURSIVE Trim(_)
Trim(s) ==
  IF s = <<>> THEN s
  ELSE IF s[1] = " " THEN Trim(Tail(s))
  ELSE IF s[Len(s)] = " " THEN Trim(SubSeq(s, 1, Len(s) - 1))
  ELSE s

NormalEmail(email) == Trim(ToLowerCase(email))

\* SHA-256 in hexadecimal: equal for equal passwords only
hashPassword(password) == [sha256 |-> password]

\* what the forms may hold
EmailInputs == {<<>>, <<"a">>, <<"A", " ">>}
PasswordInputs == {"", "short", "password1"}

\* the forms handed to signup: one that passes for each email, and one for
\* each way of failing the validation
SignupInputs ==
  {<<"Ann", email, "password1", "password1">> : email \in EmailInputs}
    \cup {<<"", <<"a">>, "password1", "password1">>,
          <<"Ann", <<"a">>, "password1", "">>,
          <<"Ann", <<"a">>, "password1", "short">>,
          <<"Ann", <<"a">>, "short", "short">>}

\* a member that is undefined
Undefined == "(undefined)"

\* JSON.stringify of a user object drops a member that is undefined;
\* JSON.parse gives back the members that were written
Stringify(object) ==
  IF "name" \in DOMAIN object /\ object.name = Undefined
  THEN [json |-> [user_id |-> object.user_id, email |-> object.email,
                  onboarding_completed |-> object.onboarding_completed]]
  ELSE [json |-> object]

Parse(text) == text.json

(* ---- the users table ---- *)
\* the sessions an OAuth sign-in may bring: the provider's id, the email as
\* the provider gives it, and user_metadata.name, which may be missing
OAuthUserId == 901

OAuthSessions ==
  {[id |-> OAuthUserId, email |-> <<"A">>, name |-> n] : n \in {Undefined, "Ann"}}

UserRow(user_id, name, email, password_hash) ==
  [user_id |-> user_id, name |-> name, email |-> email,
   password_hash |-> password_hash, onboarding_completed |-> FALSE,
   is_active |-> TRUE]

\* name: session.user.user_metadata.name || email.split('@')[0] || 'User'
OAuthRow(session) ==
  UserRow(session.id,
          IF session.name = Undefined THEN "A" ELSE session.name,
          session.email, Null)

\* the id the database gives a new row
NextUserId(users) == 1 + Cardinality({u \in users : u.user_id # OAuthUserId})

UsersFailed == [outcome |-> "failed", error |-> TRUE, code |-> "", data |-> Null]
UsersThrown == [outcome |-> "thrown", error |-> FALSE, code |-> "", data |-> Null]

\* .maybeSingle(): no row is no error, several rows are the error PGRST116
maybeSingle(rows) ==
  IF Cardinality(rows) = 0
  THEN [outcome |-> "answered", error |-> FALSE, code |-> "", data |-> Null]
  ELSE IF Cardinality(rows) = 1
       THEN [outcome |-> "answered", error |-> FALSE, code |-> "",
             data |-> Row(CHOOSE u \in rows : TRUE)]
       ELSE [outcome |-> "answered", error |-> TRUE, code |-> "PGRST116", data |-> Null]

\* .single(): anything but one row is an error
single(rows) ==
  IF Cardinality(rows) = 1
  THEN [outcome |-> "answered", error |-> FALSE, code |-> "",
        data |-> Row(CHOOSE u \in rows : TRUE)]
  ELSE [outcome |-> "answered", error |-> TRUE, code |-> "PGRST116", data |-> Null]

\* .from('users').select('*').eq('email', emailLower).maybeSingle()
UserByEmailQuery(users, emailLower) ==
  {maybeSingle({u \in users : u.email = emailLower}), UsersFailed, UsersThrown}

\* a write whose response may be lost after the database has applied it
WriteOutcomes(answer) ==
  {[resp |-> answer, stored |-> TRUE]}
    \cup {[resp |-> r, stored |-> b] : r \in {UsersFailed, UsersThrown}, b \in BOOLEAN}

(* ---- the provider ---- *)
NoResult == [op |-> "none", success |-> TRUE, error |-> ""]
Success(op) == [op |-> op, success |-> TRUE, error |-> ""]
Failure(op, error) == [op |-> op, success |-> FALSE, error |-> error]

IdleCall == [pc |-> "idle"]

AuthProviderUnmounted ==
  [users |-> {}, user |-> Null, isLoading |-> TRUE,
   storage |-> [user |-> Null, token |-> Null],
   started |-> 0, signups |-> [i \in 1..MaxSignups |-> IdleCall],
   login |-> IdleCall, onboarding |-> IdleCall,
   callback |-> [pc |-> "idle", session |-> Null, navigated |-> "",
                 startedEmpty |-> FALSE, stored |-> Null],
   result |-> NoResult]

\* no call of the provider waits for the gateway
NoAuthCallInFlight ==
  /\ \A i \in DOMAIN auth.signups : auth.signups[i].pc \in {"idle", "done"}
  /\ auth.login.pc = "idle"
  /\ auth.onboarding.pc = "idle"

\* localStorage.setItem('user', ...), setItem('token', `token_${user_id}`),
\* setUser(...)
SetCurrentUser(a, object) ==
  [a EXCEPT !.storage = [user |-> Stringify(object), token |-> [token |-> object.user_id]],
            !.user = Row(object)]

\* the mount effect: the stored user is restored when both entries are there.
\* (A stored text that does not parse is removed; the program writes none.)
\* A page load mounts the provider again. result is the step last taken:
\* the call it returned from and what it returned, NoResult for a step
\* inside a call.
MountAuthProvider ==
  /\ NoAuthCallInFlight
  /\ auth' = [auth EXCEPT
       !.user = IF auth.storage.user # Null /\ auth.storage.token # Null
                THEN Row(Parse(auth.storage.user)) ELSE Null,
       !.isLoading = FALSE,
       !.result = Success("mount")]
  /\ UNCHANGED <<connected, summary_metrics, daily_metrics, targeting_intel, last,
                 adSurveillance, targetingIntelView, inflight>>

(* ---- signup ---- *)
\* the validation of signup: the error it returns, "" when the input passes
signup_validate(name, email, password, confirmPassword) ==
  IF name = "" \/ email = <<>> \/ password = "" \/ confirmPassword = ""
  THEN "Fill all the details before proceeding"
  ELSE IF password # confirmPassword THEN "Passwords do not match"
  ELSE IF Len(password) < 8 THEN "Password must be at least 8 characters long"
  ELSE ""

Signup ==
  /\ ~auth.isLoading
  /\ \E form \in SignupInputs :
       LET name == form[1]
           email == form[2]
           password == form[3]
           confirmPassword == form[4]
           error == signup_validate(name, email, password, confirmPassword)
       IN IF error # ""
          THEN auth' = [auth EXCEPT !.result = Failure("signup", error)]
          ELSE /\ auth.started < MaxSignups
               /\ auth' = [auth EXCEPT
                    !.started = @ + 1,
                    !.signups[auth.started + 1] =
                       [pc |-> "checking", name |-> name,
                        email |-> NormalEmail(email),
                        password_hash |-> hashPassword(password)],
                    !.result = NoResult]
  /\ UNCHANGED <<connected, summary_metrics, daily_metrics, targeting_intel, last,
                 adSurveillance, targetingIntelView, inflight>>

\* signup after the lookup of the email: PGRST116 is not taken as a failure
signup_checked(a, i, resp) ==
  IF resp.outcome = "thrown"
  THEN [a EXCEPT !.signups[i].pc = "done",
                 !.result = Failure("signup",
                    "An error occurred during signup. Please check your connection.")]
  ELSE IF resp.error /\ resp.code # "PGRST116"
  THEN [a EXCEPT !.signups[i].pc = "done",
                 !.result = Failure("signup", "Failed to verify email. Please try again.")]
  ELSE IF resp.data # Null
  THEN [a EXCEPT !.signups[i].pc = "done",
                 !.result = Failure("signup", "Email already exists")]
  ELSE [a EXCEPT !.signups[i].pc = "inserting", !.result = NoResult]

SignupChecked(i) ==
  /\ auth.signups[i].pc = "checking"
  /\ \E resp \in UserByEmailQuery(auth.users, auth.signups[i].email) :
       auth' = signup_checked(auth, i, resp)
  /\ UNCHANGED <<connected, summary_metrics, daily_metrics, targeting_intel, last,
                 adSurveillance, targetingIntelView, inflight>>

\* signup after the insert
signup_inserted(a, i, resp) ==
  IF resp.outcome = "thrown"
  THEN [a EXCEPT !.signups[i].pc = "done",
                 !.result = Failure("signup",
                    "An error occurred during signup. Please check your connection.")]
  ELSE IF resp.error \/ resp.data = Null
  THEN [a EXCEPT !.signups[i].pc = "done",
                 !.result = Failure("signup", "Failed to create account. Please try again.")]
  ELSE [SetCurrentUser(a, [user_id |-> resp.data.row.user_id,
                           name |-> resp.data.row.name,
                           email |-> resp.data.row.email,
                           onboarding_completed |-> FALSE])
          EXCEPT !.signups[i].pc = "done", !.result = Success("signup")]

SignupInserted(i) ==
  /\ auth.signups[i].pc = "inserting"
  /\ LET call == auth.signups[i]
         row == UserRow(NextUserId(auth.users), call.name, call.email,
                        call.password_hash)
     IN \E out \in WriteOutcomes([outcome |-> "answered", error |-> FALSE,
                                  code |-> "", data |-> Row(row)]) :
          auth' = signup_inserted(
                    [auth EXCEPT !.users = IF out.stored THEN @ \cup {row} ELSE @],
                    i, out.resp)
  /\ UNCHANGED <<connected, summary_metrics, daily_metrics, targeting_intel, last,
                 adSurveillance, targetingIntelView, inflight>>

(* ---- login ---- *)
Login ==
  /\ ~auth.isLoading
  /\ auth.login.pc = "idle"
  /\ \E email \in EmailInputs, password \in PasswordInputs :
       IF email = <<>> \/ password = ""
       THEN auth' = [auth EXCEPT
              !.result = Failure("login", "Email and password are required")]
       ELSE auth' = [auth EXCEPT
              !.login = [pc |-> "fetching", email |-> NormalEmail(email),
                         password_hash |-> hashPassword(password)],
                    !.result = NoResult]
  /\ UNCHANGED <<connected, summary_metrics, daily_metrics, targeting_intel, last,
                 adSurveillance, targetingIntelView, inflight>>

LoginFailed(a, error) == [a EXCEPT !.login = IdleCall, !.result = Failure("login", error)]

\* mutant: the session is written before the password is compared
login_fetched_storesFirst(a, resp) ==
  IF resp.outcome = "thrown"
  THEN LoginFailed(a, "An error occurred during login. Please check your connection.")
  ELSE IF resp.error
  THEN LoginFailed(a, "Failed to login. Please try again.")
  ELSE IF resp.data = Null
  THEN LoginFailed(a, "Invalid email or password")
  ELSE IF resp.data.row.is_active = FALSE
  THEN LoginFailed(a, "Account has been deactivated")
  ELSE IF resp.data.row.password_hash # a.login.password_hash
  THEN LoginFailed(SetCurrentUser(a, [user_id |-> resp.data.row.user_id,
                                      name |-> resp.data.row.name,
                                      email |-> resp.data.row.email,
                                      onboarding_completed |->
                                        resp.data.row.onboarding_completed]),
                   "Invalid email or password")
  ELSE [a EXCEPT !.login = [pc |-> "updating", row |-> resp.data.row],
                 !.result = NoResult]

\* login after the lookup of the user
login_fetched(a, resp) ==
  IF resp.outcome = "thrown"
  THEN LoginFailed(a, "An error occurred during login. Please check your connection.")
  ELSE IF resp.error
  THEN LoginFailed(a, "Failed to login. Please try again.")
  ELSE IF resp.data = Null
  THEN LoginFailed(a, "Invalid email or password")
  ELSE IF resp.data.row.is_active = FALSE
  THEN LoginFailed(a, "Account has been deactivated")
  ELSE IF resp.data.row.password_hash # a.login.password_hash
  THEN LoginFailed(a, "Invalid email or password")
  ELSE [a EXCEPT !.login = [pc |-> "updating", row |-> resp.data.row],
                 !.result = NoResult]

LoginFetched ==
  /\ auth.login.pc = "fetching"
  /\ \E resp \in UserByEmailQuery(auth.users, auth.login.email) :
       auth' = login_fetched(auth, resp)
  /\ UNCHANGED <<connected, summary_metrics, daily_metrics, targeting_intel, last,
                 adSurveillance, targetingIntelView, inflight>>

\* login after the update of last_login, whose result is not looked at
login_updated(a, outcome) ==
  IF outcome = "thrown"
  THEN LoginFailed(a, "An error occurred during login. Please check your connection.")
  ELSE [SetCurrentUser(a, [user_id |-> a.login.row.user_id,
                           name |-> a.login.row.name,
                           email |-> a.login.row.email,
                           onboarding_completed |-> a.login.row.onboarding_completed])
          EXCEPT !.login = IdleCall, !.result = Success("login")]

LoginUpdated ==
  /\ auth.login.pc = "updating"
  /\ \E outcome \in {"answered", "failed", "thrown"} :
       auth' = login_updated(auth, outcome)
  /\ UNCHANGED <<connected, summary_metrics, daily_metrics, targeting_intel, last,
                 adSurveillance, targetingIntelView, inflight>>

(* ---- logout ---- *)
Logout ==
  /\ ~auth.isLoading
  /\ auth' = [auth EXCEPT !.storage = [user |-> Null, token |-> Null],
                          !.user = Null,
                          !.result = Success("logout")]
  /\ UNCHANGED <<connected, summary_metrics, daily_metrics, targeting_intel, last,
                 adSurveillance, targetingIntelView, inflight>>

(* ---- completeOnboarding ---- *)
\* the call keeps the user of the render it was made in
CompleteOnboarding ==
  /\ ~auth.isLoading
  /\ auth.onboarding.pc = "idle"
  /\ \E filled \in BOOLEAN :
       IF auth.user = Null
       THEN auth' = [auth EXCEPT
              !.result = Failure("completeOnboarding", "No user logged in")]
       ELSE IF ~filled
       THEN auth' = [auth EXCEPT
              !.result = Failure("completeOnboarding", "All onboarding questions must be answered")]
       ELSE auth' = [auth EXCEPT
              !.onboarding = [pc |-> "updating", user |-> auth.user.row],
              !.result = NoResult]
  /\ UNCHANGED <<connected, summary_metrics, daily_metrics, targeting_intel, last,
                 adSurveillance, targetingIntelView, inflight>>

\* the rows after .update({..., onboarding_completed: true}).eq('user_id', id)
Onboarded(users, user_id) ==
  {IF u.user_id = user_id THEN [u EXCEPT !.onboarding_completed = TRUE] ELSE u
     : u \in users}

completeOnboarding_updated(a, resp) ==
  IF resp.outcome = "thrown"
  THEN [a EXCEPT !.onboarding = IdleCall,
                 !.result = Failure("completeOnboarding",
                    "An error occurred during onboarding. Please check your connection.")]
  ELSE IF resp.error \/ resp.data = Null
  THEN [a EXCEPT !.onboarding = IdleCall,
                 !.result = Failure("completeOnboarding",
                    "Failed to update profile. Please try again.")]
  ELSE [a EXCEPT !.storage.user =
                    Stringify([a.onboarding.user EXCEPT !.onboarding_completed = TRUE]),
                 !.user = Row([a.onboarding.user EXCEPT !.onboarding_completed = TRUE]),
                 !.onboarding = IdleCall,
                 !.result = Success("completeOnboarding")]

CompleteOnboardingUpdated ==
  /\ auth.onboarding.pc = "updating"
  /\ LET user_id == auth.onboarding.user.user_id
         after == Onboarded(auth.users, user_id)
     IN \E out \in WriteOutcomes(single({u \in after : u.user_id = user_id})) :
          auth' = completeOnboarding_updated(
                    [auth EXCEPT !.users = IF out.stored THEN after ELSE @],
                    out.resp)
  /\ UNCHANGED <<connected, summary_metrics, daily_metrics, targeting_intel, last,
                 adSurveillance, targetingIntelView, inflight>>

(* ---- AuthCallback ---- *)
\* the effect of the callback page up to supabase.auth.getSession()
AuthCallbackMount ==
  /\ auth.callback.pc = "idle"
  /\ auth' = [auth EXCEPT
       !.callback = [@ EXCEPT !.pc = "session",
                              !.startedEmpty = (auth.storage = [user |-> Null, token |-> Null])],
       !.result = NoResult]
  /\ UNCHANGED <<connected, summary_metrics, daily_metrics, targeting_intel, last,
                 adSurveillance, targetingIntelView, inflight>>

Navigate(a, path) ==
  [a EXCEPT !.callback = [@ EXCEPT !.pc = "done", !.navigated = path],
            !.result = NoResult]

\* getSession() has answered. The lookup of the profile ends in
\* .single().catch(...): where the query builder has no catch method, the
\* call throws before the query is sent.
AuthCallbackSession ==
  /\ auth.callback.pc = "session"
  /\ \/ \E outcome \in {"error", "thrown", "no user"} :
          auth' = Navigate(auth, "/login")
     \/ \E session \in OAuthSessions, builderHasCatch \in BOOLEAN :
          auth' = IF builderHasCatch
                  THEN [auth EXCEPT !.callback = [@ EXCEPT !.pc = "profile",
                                                           !.session = session],
                                    !.result = NoResult]
                  ELSE Navigate(auth, "/login")
  /\ UNCHANGED <<connected, summary_metrics, daily_metrics, targeting_intel, last,
                 adSurveillance, targetingIntelView, inflight>>

\* localStorage.setItem('user', ...) of the callback: no token is written
callback_store(a, onboarding_completed) ==
  LET session == a.callback.session
      text == Stringify([user_id |-> session.id, name |-> session.name,
                         email |-> session.email,
                         onboarding_completed |-> onboarding_completed])
  IN Navigate([a EXCEPT !.storage.user = text, !.callback.stored = text],
              IF onboarding_completed THEN "/dashboard" ELSE "/onboarding")

\* the lookup has answered: a failure and a rejection both give no profile
AuthCallbackProfile ==
  /\ auth.callback.pc = "profile"
  /\ \E resp \in {single({u \in auth.users : u.user_id = auth.callback.session.id}),
                  UsersFailed, UsersThrown} :
       auth' = IF resp.data = Null
               THEN [auth EXCEPT !.callback.pc = "insert", !.result = NoResult]
               ELSE callback_store(auth, resp.data.row.onboarding_completed)
  /\ UNCHANGED <<connected, summary_metrics, daily_metrics, targeting_intel, last,
                 adSurveillance, targetingIntelView, inflight>>

\* the insert of the profile has answered: an error is logged only, an
\* exception ends the callback at /login. A row with this user_id that is
\* already there makes the insert fail.
AuthCallbackInsert ==
  /\ auth.callback.pc = "insert"
  /\ LET row == OAuthRow(auth.callback.session)
         taken == \E u \in auth.users : u.user_id = row.user_id
     IN \E out \in WriteOutcomes([outcome |-> "answered", error |-> FALSE,
                                  code |-> "", data |-> Null]) :
          /\ taken => (~out.stored /\ out.resp.outcome # "answered")
          /\ LET a == [auth EXCEPT !.users = IF out.stored THEN @ \cup {row} ELSE @]
             IN auth' = IF out.resp.outcome = "thrown"
                        THEN Navigate(a, "/login")
                        ELSE callback_store(a, FALSE)
  /\ UNCHANGED <<connected, summary_metrics, daily_metrics, targeting_intel, last,
                 adSurveillance, targetingIntelView, inflight>>

(***************************************************************************)
(* Calls of the data-access layer that overlap: a read is issued, other    *)
(* calls are issued and answered and rows are created while it waits, and  *)
(* its continuation runs when its own response arrives. The query is       *)
(* evaluated against the store as it is when the response is made.         *)
(***************************************************************************)
MaxInFlight == 2

NoCallsInFlight == [i \in 1..MaxInFlight |-> [pc |-> "idle", op |-> "none"]]

\* the reads taken to overlap: one of each table and two of the same table
ConcurrentReads ==
  {"fetchSummaryMetrics", "fetchLatestTargetingIntel", "fetchAllTargetingIntel"}

QueryOf(op) ==
  CASE op = "fetchSummaryMetrics" -> SummaryQuery
    [] op = "fetchLatestTargetingIntel" -> LatestTargetingQuery
    [] op = "fetchAllTargetingIntel" -> AllTargetingQuery

\* mutant: a module-level busy flag, a read that finds another one under way
\* gives up and returns nothing
ReadValue_busy(i, op, resp) ==
  IF \E j \in DOMAIN inflight : j # i /\ inflight[j].pc = "sent"
  THEN Awaited(Return(Null))
  ELSE CASE op = "fetchSummaryMetrics" -> fetchSummaryMetrics(resp)
         [] op = "fetchLatestTargetingIntel" -> fetchLatestTargetingIntel(resp)
         [] op = "fetchAllTargetingIntel" -> fetchAllTargetingIntel(resp)

\* what call i of op returns for the response to its query
ReadValue(i, op, resp) ==
  CASE op = "fetchSummaryMetrics" -> fetchSummaryMetrics(resp)
    [] op = "fetchLatestTargetingIntel" -> fetchLatestTargetingIntel(resp)
    [] op = "fetchAllTargetingIntel" -> fetchAllTargetingIntel(resp)

\* a read is called: without the gateway it returns at once, with it the
\* query is sent and the call waits
IssueRead ==
  \E i \in DOMAIN inflight, op \in ConcurrentReads :
    /\ inflight[i].pc = "idle"
    /\ \A j \in 1..(i - 1) : inflight[j].pc = "sent"
    /\ IF connected
       THEN /\ inflight' = [inflight EXCEPT ![i] = [pc |-> "sent", op |-> op]]
            /\ UNCHANGED last
       ELSE /\ last' = Call(op, NoResp, ReadValue(i, op, NoResp))
            /\ UNCHANGED inflight
    /\ UNCHANGED <<connected, summary_metrics, daily_metrics, targeting_intel,
                   adSurveillance, targetingIntelView, auth>>

\* the response to call i arrives and the call returns
ResponseArrives(i) ==
  /\ inflight[i].pc = "sent"
  /\ \E resp \in QueryOf(inflight[i].op) :
       last' = Call(inflight[i].op, resp, ReadValue(i, inflight[i].op, resp))
  /\ inflight' = [inflight EXCEPT ![i] = [pc |-> "idle", op |-> "none"]]
  /\ UNCHANGED <<connected, summary_metrics, daily_metrics, targeting_intel,
                 adSurveillance, targetingIntelView, auth>>


NoCall == Call("none", NoResp, Return(Null))

\* nothing has called the layer yet
CallersIdle ==
  /\ adSurveillance = AdSurveillanceMounted
  /\ targetingIntelView = TargetingIntelUnmounted
  /\ auth = AuthProviderUnmounted
  /\ inflight = NoCallsInFlight

Init ==
  /\ connected \in BOOLEAN
  /\ \/ /\ summary_metrics \in SummaryTables
        /\ daily_metrics = {}
        /\ targeting_intel = {}
     \/ /\ summary_metrics = {}
        /\ daily_metrics \in DailyTables
        /\ targeting_intel = {}
     \/ /\ summary_metrics = {}
        /\ daily_metrics = {}
        /\ targeting_intel \in TargetingTables
  /\ last = NoCall
  /\ CallersIdle

Next ==
  \/ FetchSummaryMetrics
  \/ FetchDailyMetrics
  \/ FetchAllTargetingIntel
  \/ FetchTargetingIntelByCompetitorId
  \/ FetchLatestTargetingIntel
  \/ FetchTargetingIntelByCompetitorName
  \/ TestDatabaseConnection
  \/ TestTargetingIntelConnection

Spec == Init /\ [][Next]_vars

\* reads and writes together, on the one table that is written
InitWrite ==
  /\ connected \in BOOLEAN
  /\ summary_metrics = {}
  /\ daily_metrics = {}
  /\ targeting_intel \in TargetingTables
  /\ last = NoCall
  /\ CallersIdle

NextWrite == Next \/ CreateTargetingIntel

SpecWrite == InitWrite /\ [][NextWrite]_vars

\* the two components over a small store: at most one row in each table
SmallTable(table) ==
  Cardinality(table) <= 1 /\ \A r \in table : r.id = 1 /\ r.created_at = 1

InitViews ==
  /\ connected \in BOOLEAN
  /\ \/ /\ summary_metrics \in {t \in SummaryTables : SmallTable(t)}
        /\ daily_metrics \in {t \in DailyTables : Cardinality(t) <= 1}
        /\ targeting_intel = {}
     \/ /\ summary_metrics = {}
        /\ daily_metrics = {}
        /\ targeting_intel \in {t \in TargetingTables : SmallTable(t)}
  /\ last = NoCall
  /\ CallersIdle

NextViews ==
  \/ Initialize
  \/ \E i \in RunIds : CheckDatabaseStatusDone(i)
  \/ RefreshStatus
  \/ \E i \in RunIds : RefreshStatusDone(i)
  \/ HandleAddCompetitor
  \/ \E i \in RunIds : AddCompetitorDone(i)
  \/ \E i \in RunIds : LoadDataDone(i)
  \/ MountTargetingIntel
  \/ TargetingLoadDataDone

\* every round trip comes back: a continuation that waits for a response runs
ResponsesArrive ==
  /\ \A i \in RunIds : /\ WF_vars(CheckDatabaseStatusDone(i))
                       /\ WF_vars(RefreshStatusDone(i))
                       /\ WF_vars(AddCompetitorDone(i))
                       /\ WF_vars(LoadDataDone(i))
  /\ WF_vars(TargetingLoadDataDone)

SpecViews == InitViews /\ [][NextViews]_vars /\ ResponsesArrive

\* the components over an empty store and over a store with one row in
\* summary_metrics and one in targeting_intel
InitLoads ==
  /\ connected \in BOOLEAN
  /\ \E row \in BOOLEAN :
       /\ summary_metrics =
            IF row THEN {[id |-> 1, total_competitor_spend |-> 1000,
                          created_at |-> 1]}
            ELSE {}
       /\ targeting_intel = IF row THEN {NewRow(1, Competitors[1], 1)} ELSE {}
  /\ daily_metrics = {}
  /\ last = NoCall
  /\ CallersIdle

SpecLoads == InitLoads /\ [][NextViews]_vars /\ ResponsesArrive

(* ---- the users table and the sessions of the provider ---- *)
ExistingUser == UserRow(1, "Ann", <<"a">>, hashPassword("password1"))

AuthTables == {{}, {ExistingUser}, {[ExistingUser EXCEPT !.is_active = FALSE]}}

CallbackTables ==
  {{ExistingUser}} \cup {{ExistingUser, OAuthRow(session)} : session \in OAuthSessions}

InitAuth ==
  /\ connected = FALSE
  /\ summary_metrics = {}
  /\ daily_metrics = {}
  /\ targeting_intel = {}
  /\ last = NoCall
  /\ adSurveillance = AdSurveillanceMounted
  /\ targetingIntelView = TargetingIntelUnmounted
  /\ inflight = NoCallsInFlight
  /\ auth \in {[AuthProviderUnmounted EXCEPT !.users = users] : users \in AuthTables}

NextAuth ==
  \/ MountAuthProvider
  \/ Signup
  \/ \E i \in DOMAIN auth.signups : SignupChecked(i)
  \/ \E i \in DOMAIN auth.signups : SignupInserted(i)
  \/ Login
  \/ LoginFetched
  \/ LoginUpdated
  \/ Logout
  \/ CompleteOnboarding
  \/ CompleteOnboardingUpdated

SpecAuth == InitAuth /\ [][NextAuth]_vars

\* the OAuth callback page, the page loads after it, and a login and a logout
InitCallback ==
  /\ connected = FALSE
  /\ summary_metrics = {}
  /\ daily_metrics = {}
  /\ targeting_intel = {}
  /\ last = NoCall
  /\ adSurveillance = AdSurveillanceMounted
  /\ targetingIntelView = TargetingIntelUnmounted
  /\ inflight = NoCallsInFlight
  /\ auth \in {[AuthProviderUnmounted EXCEPT !.users = users] : users \in CallbackTables}

NextCallback ==
  \/ MountAuthProvider
  \/ Login
  \/ LoginFetched
  \/ LoginUpdated
  \/ Logout
  \/ AuthCallbackMount
  \/ AuthCallbackSession
  \/ AuthCallbackProfile
  \/ AuthCallbackInsert

SpecCallback == InitCallback /\ [][NextCallback]_vars

\* overlapping reads, with a row being created while they wait: the table
\* starts with room for one more row
InitConcurrent ==
  /\ connected \in BOOLEAN
  /\ summary_metrics \in {t \in SummaryTables : SmallTable(t)}
  /\ daily_metrics = {}
  /\ targeting_intel =
       {NewRow(i, Competitors[1], 1) : i \in 1..(MaxTargetRows - 1)}
  /\ last = NoCall
  /\ CallersIdle

NextConcurrent ==
  \/ IssueRead
  \/ \E i \in DOMAIN inflight : ResponseArrives(i)
  \/ CreateTargetingIntel

SpecConcurrent == InitConcurrent /\ [][NextConcurrent]_vars

(***************************************************************************)
(* Properties of the read operations                                       *)
(***************************************************************************)
ReadOps ==
  {"fetchSummaryMetrics", "fetchDailyMetrics", "fetchAllTargetingIntel",
   "fetchTargetingIntelByCompetitorId", "fetchTargetingIntelByCompetitorName",
   "fetchLatestTargetingIntel"}

\* the query failed in transit: an error value or a rejected promise
QueryFailed == last.resp.outcome \in {"failed", "thrown"}

\* q occurs in s as a substring, letter case ignored
ContainsCI(s, q) ==
  \E i \in 0..(Len(s) - Len(q)) :
    \A k \in 1..Len(q) : Lower(s[i + k]) = Lower(q[k])

\* q holds none of the characters a LIKE pattern gives a meaning to
PlainText(q) == \A k \in 1..Len(q) : q[k] \notin {"%", "_", "*", "\\"}

\* C1: when the gateway is unavailable every read returns its fallback value
\* exactly (the mock summary, the empty list, the one-element list of the mock
\* targeting record, the mock targeting record) and makes no gateway call.
C1_UnavailableReadsFallBack ==
  (~connected /\ last.op \in ReadOps) =>
    /\ last.calls = 0
    /\ ~last.threw
    /\ last.value =
         CASE last.op = "fetchSummaryMetrics" -> Row(mockSummaryMetrics)
           [] last.op = "fetchDailyMetrics" -> List(<<>>)
           [] last.op = "fetchAllTargetingIntel" -> List(<<mockTargetingIntelData>>)
           [] OTHER -> Row(mockTargetingIntelData)

C1_Witness ==
  /\ ~connected
  /\ targeting_intel # {}
  /\ last.op = "fetchAllTargetingIntel"
  /\ last.value = List(<<mockTargetingIntelData>>)

\* C2: no read operation throws or rejects to its caller, whatever the
\* gateway does.
C2_ReadsNeverThrow == last.op \in ReadOps => ~last.threw

C2_Witness ==
  /\ last.op = "fetchDailyMetrics"
  /\ last.resp.outcome = "thrown"
  /\ ~last.threw

\* C3: with the gateway available, fetchSummaryMetrics returns the mock summary
\* when the query fails or the table is empty, and otherwise a row of
\* summary_metrics with the greatest created_at.
C3_SummaryLatestOrMock ==
  (connected /\ last.op = "fetchSummaryMetrics") =>
    IF QueryFailed \/ summary_metrics = {}
    THEN last.value = Row(mockSummaryMetrics)
    ELSE /\ last.value.kind = "row"
         /\ last.value.row \in summary_metrics
         /\ \A r \in summary_metrics : last.value.row.created_at >= r.created_at

C3_Witness ==
  /\ connected
  /\ last.op = "fetchSummaryMetrics"
  /\ last.resp.outcome = "answered"
  /\ last.value.kind = "row"
  /\ \E r \in summary_metrics : r.created_at < last.value.row.created_at

\* C4: with the gateway available, fetchDailyMetrics returns the empty list
\* when the query fails or no row has the target date, and its result is
\* always a list, never null.
C4_DailyEmptyOnMiss ==
  (connected /\ last.op = "fetchDailyMetrics") =>
    /\ last.value.kind = "list"
    /\ (\/ QueryFailed
        \/ ~\E r \in daily_metrics : r.date = TargetDate(last.date, last.today))
         => last.value = List(<<>>)

C4_Witness ==
  /\ connected
  /\ last.op = "fetchDailyMetrics"
  /\ last.resp.outcome = "answered"
  /\ daily_metrics # {}
  /\ ~\E r \in daily_metrics : r.date = TargetDate(last.date, last.today)
  /\ last.value = List(<<>>)

\* C5: fetchAllTargetingIntel always returns at least one element: the
\* one-element list of the mock record when the gateway is unavailable, the
\* query fails or the table is empty, and otherwise every row of
\* targeting_intel, once each, in descending created_at order.
C5_AllTargetingNonEmpty ==
  last.op = "fetchAllTargetingIntel" =>
    /\ ~last.threw
    /\ last.value.kind = "list"
    /\ Len(last.value.list) >= 1
    /\ IF ~connected \/ QueryFailed \/ targeting_intel = {}
       THEN last.value = List(<<mockTargetingIntelData>>)
       ELSE LET l == last.value.list
            IN /\ Len(l) = Cardinality(targeting_intel)
               /\ {l[i] : i \in 1..Len(l)} = targeting_intel
               /\ \A i, j \in 1..Len(l) : i < j => l[i].created_at >= l[j].created_at

C5_Witness ==
  /\ connected
  /\ last.op = "fetchAllTargetingIntel"
  /\ last.resp.outcome = "answered"
  /\ Len(last.value.list) >= 2
  /\ last.value.list[1].created_at > last.value.list[2].created_at

\* C6: fetchTargetingIntelByCompetitorId never returns null: its result is a
\* row of targeting_intel for the requested competitor, or the mock record.
C6_ByIdNeverNull ==
  last.op = "fetchTargetingIntelByCompetitorId" =>
    /\ ~last.threw
    /\ last.value # Null
    /\ \/ last.value = Row(mockTargetingIntelData)
       \/ /\ last.value.kind = "row"
          /\ last.value.row \in targeting_intel
          /\ last.value.row.competitor_id = last.cid

C6_Witness ==
  /\ connected
  /\ last.op = "fetchTargetingIntelByCompetitorId"
  /\ last.resp.outcome = "answered"
  /\ targeting_intel # {}
  /\ ~\E r \in targeting_intel : r.competitor_id = last.cid
  /\ last.value = Row(mockTargetingIntelData)

\* C7: with the gateway available and the query answered,
\* fetchTargetingIntelByCompetitorName returns null when no row's
\* competitor_name contains the query.
C7_ByNameNullOnNoMatch ==
  (/\ connected
   /\ last.op = "fetchTargetingIntelByCompetitorName"
   /\ last.resp.outcome = "answered"
   /\ ~\E r \in targeting_intel : ContainsCI(r.competitor_name, last.name))
    => last.value = Null

\* C8: with the gateway available, fetchLatestTargetingIntel never returns
\* null: it returns the mock record when the query fails or the table is
\* empty, and otherwise a row of targeting_intel with the greatest created_at.
C8_LatestOrMock ==
  (connected /\ last.op = "fetchLatestTargetingIntel") =>
    /\ last.value # Null
    /\ IF QueryFailed \/ targeting_intel = {}
       THEN last.value = Row(mockTargetingIntelData)
       ELSE /\ last.value.kind = "row"
            /\ last.value.row \in targeting_intel
            /\ \A r \in targeting_intel : last.value.row.created_at >= r.created_at

C8_Witness ==
  /\ connected
  /\ last.op = "fetchLatestTargetingIntel"
  /\ last.resp.outcome = "answered"
  /\ \/ targeting_intel = {} /\ last.value = Row(mockTargetingIntelData)
     \/ \E r \in targeting_intel : r.created_at < last.value.row.created_at

\* C9: the list fetchDailyMetrics returns has at most 10 elements and its
\* daily_spend values never increase along the list.
C9_DailySortedAndLimited ==
  last.op = "fetchDailyMetrics" =>
    LET l == last.value.list
    IN /\ Len(l) <= 10
       /\ \A i, j \in 1..Len(l) : i < j => l[i].daily_spend >= l[j].daily_spend

\* C10 as stated: with the gateway available and a row whose competitor_name
\* contains the query, fetchTargetingIntelByCompetitorName returns such a row,
\* the one with the greatest created_at, never the mock record or null.
C10_ByNameReturnsMatch ==
  (/\ connected
   /\ last.op = "fetchTargetingIntelByCompetitorName"
   /\ \E r \in targeting_intel : ContainsCI(r.competitor_name, last.name))
    => /\ last.value.kind = "row"
       /\ last.value.row \in targeting_intel
       /\ ContainsCI(last.value.row.competitor_name, last.name)
       /\ \A r \in targeting_intel :
            ContainsCI(r.competitor_name, last.name)
              => last.value.row.created_at >= r.created_at

\* C10 amended: when moreover the query is answered (no error value, no
\* exception), the result is a row matching the pattern %query% under ILIKE
\* with the greatest created_at among the rows matching it; for a query with
\* no pattern character (% _ * \) these are the rows containing the query.
C10_ByNameReturnsMatchWhenAnswered ==
  (/\ connected
   /\ last.op = "fetchTargetingIntelByCompetitorName"
   /\ last.resp.outcome = "answered")
    => LET matches ==
             {r \in targeting_intel :
                ILike(r.competitor_name, <<"%">> \o last.name \o <<"%">>)}
       IN /\ PlainText(last.name) =>
               matches = {r \in targeting_intel :
                            ContainsCI(r.competitor_name, last.name)}
          /\ matches # {} =>
               /\ last.value.kind = "row"
               /\ last.value.row \in matches
               /\ \A r \in matches : last.value.row.created_at >= r.created_at

C10_Witness ==
  /\ connected
  /\ last.op = "fetchTargetingIntelByCompetitorName"
  /\ last.resp.outcome = "answered"
  /\ last.name = <<"n", "i">>
  /\ last.value.kind = "row"
  /\ ContainsCI(last.value.row.competitor_name, last.name)
  /\ \E r \in targeting_intel :
       /\ ContainsCI(r.competitor_name, last.name)
       /\ r.created_at < last.value.row.created_at

(***************************************************************************)
(* Properties of the connection probes                                     *)
(***************************************************************************)
\* C13: with the gateway unavailable, testDatabaseConnection returns
\* {connected: false, summaryCount: 0, dailyCount: 0, error: 'Not connected to
\* Supabase'} and testTargetingIntelConnection returns {connected: false,
\* recordCount: 0, error: 'Not connected to Supabase'}, each without a gateway
\* call.
C13_ProbesWhenUnavailable ==
  ~connected =>
    /\ last.op = "testDatabaseConnection" =>
         /\ last.value = Probe([connected |-> FALSE, summaryCount |-> 0,
                                dailyCount |-> 0, error |-> NotConnected])
         /\ last.calls = 0 /\ ~last.threw
    /\ last.op = "testTargetingIntelConnection" =>
         /\ last.value = Probe([connected |-> FALSE, recordCount |-> 0,
                                latestRecord |-> Null, error |-> NotConnected])
         /\ last.calls = 0 /\ ~last.threw

C13_Witness ==
  /\ ~connected
  /\ last.op \in {"testDatabaseConnection", "testTargetingIntelConnection"}
  /\ last.value.probe.error = NotConnected
  /\ summary_metrics # {} \/ targeting_intel # {}

\* C14: with the gateway available, if a count query of testDatabaseConnection
\* fails (an error in its result, or an exception) the probe returns
\* connected = false, both counts 0 and the error's message; connected = true
\* is returned only when both count queries succeeded.
C14_DatabaseProbeFailsOnQueryFailure ==
  (connected /\ last.op = "testDatabaseConnection") =>
    /\ (last.resp.outcome = "answered" /\ last.resp2.outcome = "answered")
         \/ last.value = Probe([connected |-> FALSE, summaryCount |-> 0,
                                dailyCount |-> 0, error |-> GatewayMessage])
    /\ last.value.probe.connected =>
         (last.resp.outcome = "answered" /\ last.resp2.outcome = "answered")

\* C15: with the gateway available, if the count query or the fetch of the most
\* recent record of testTargetingIntelConnection fails (the fetch also fails on
\* an empty table) the probe returns connected = false, recordCount 0 and the
\* error's message; connected = true is returned only when both succeeded.
C15_TargetingProbeFailsOnQueryFailure ==
  (connected /\ last.op = "testTargetingIntelConnection") =>
    LET succeeded == /\ last.resp.outcome = "answered" /\ ~last.resp.error
                     /\ last.resp2.outcome = "answered" /\ ~last.resp2.error
    IN /\ succeeded
            \/ last.value = Probe([connected |-> FALSE, recordCount |-> 0,
                                   latestRecord |-> Null, error |-> GatewayMessage])
       /\ last.value.probe.connected => succeeded

(***************************************************************************)
(* Further properties of the read operations                               *)
(***************************************************************************)
SameArguments(a, b) ==
  a.op = b.op /\ a.date = b.date /\ a.cid = b.cid /\ a.name = b.name

StoreAnswered(call) == call.resp.outcome \in {"answered", "none"}

\* C16: two successive calls of a read operation with the same arguments, on
\* the same store and the same availability (the gateway unavailable, or
\* answering both queries), return identical results.
C16_ReadsIdempotent ==
  [][(/\ last.op \in ReadOps /\ SameArguments(last, last')
      /\ StoreAnswered(last) /\ StoreAnswered(last'))
       => (last'.value = last.value /\ last'.threw = last.threw)]_vars

\* the rows a read's query selects differ pairwise in its sort key
SortKeysDistinct(call) ==
  CASE call.op = "fetchSummaryMetrics" ->
         \A a, b \in summary_metrics : a # b => a.created_at # b.created_at
    [] call.op = "fetchDailyMetrics" ->
         \A a, b \in {r \in daily_metrics : r.date = TargetDate(call.date, call.today)} :
           a # b => a.daily_spend # b.daily_spend
    [] call.op \in {"fetchAllTargetingIntel", "fetchLatestTargetingIntel",
                    "fetchTargetingIntelByCompetitorName"} ->
         \A a, b \in targeting_intel : a # b => a.created_at # b.created_at
    [] OTHER -> TRUE

\* C16 (amended): two successive calls of a read operation with the same
\* arguments on the same store return identical results when the store answers
\* both queries (or the gateway is unavailable), the clock gives both calls
\* the same default date, and the selected rows differ in the sort key.
C16_ReadsIdempotentWhenAnswered ==
  [][(/\ last.op \in ReadOps /\ SameArguments(last, last')
      /\ last'.today = last.today
      /\ StoreAnswered(last) /\ StoreAnswered(last')
      /\ SortKeysDistinct(last))
       => (last'.value = last.value /\ last'.threw = last.threw)]_vars

C16_Witness ==
  /\ connected
  /\ last.op = "fetchAllTargetingIntel"
  /\ last.resp.outcome = "answered"
  /\ Cardinality(targeting_intel) >= 2
  /\ SortKeysDistinct(last)
  /\ last.value.kind = "list" /\ Len(last.value.list) >= 2
  /\ ENABLED (FetchAllTargetingIntel /\ last'.resp.outcome = "answered")

\* C17: a value a read operation returns from store rows has every field
\* defined, whatever fields the stored row lacks: numbers default to 0, the
\* competitor name to 'Unknown'; for fetchSummaryMetrics as for fetchDailyMetrics.
C17_FullyPopulated ==
  (connected /\ last.resp.outcome = "answered") =>
    /\ last.op = "fetchSummaryMetrics" =>
         last.value.row.total_competitor_spend # NullNum
    /\ last.op = "fetchDailyMetrics" =>
         \A i \in 1..Len(last.value.list) :
           /\ last.value.list[i].daily_spend # NullNum
           /\ last.value.list[i].daily_impressions # NullNum
           /\ last.value.list[i].daily_ctr # NullNum
           /\ last.value.list[i].competitor_name \in {"Unknown", "Nike", "Adidas"}

\* C18: with the gateway available and two or more stored rows of the requested
\* competitor_id, fetchTargetingIntelByCompetitorId returns the one of them with
\* the greatest created_at, not the mock.
C18_ByIdReturnsLatestOfSeveral ==
  LET matching == {r \in targeting_intel : r.competitor_id = last.cid}
  IN (/\ connected
      /\ last.op = "fetchTargetingIntelByCompetitorId"
      /\ last.resp.outcome = "answered"
      /\ Cardinality(matching) >= 2)
       => /\ last.value.kind = "row"
          /\ last.value.row \in matching
          /\ \A r \in matching : r.created_at <= last.value.row.created_at

(***************************************************************************)
(* Properties of createTargetingIntel                                      *)
(***************************************************************************)
\* C11: createTargetingIntel returns null without a gateway call when the
\* gateway is unavailable, returns null when the insert reports an error or
\* throws, and never returns the mock record.
C11_CreateNullOnFailure ==
  last.op = "createTargetingIntel" =>
    /\ ~last.threw
    /\ ~connected => (last.value = Null /\ last.calls = 0)
    /\ (connected /\ QueryFailed) => last.value = Null
    /\ last.value # Row(mockTargetingIntelData)

C11_Witness ==
  /\ connected
  /\ last.op = "createTargetingIntel"
  /\ last.resp.outcome = "thrown"
  /\ last.value = Null

\* C12: after a successful createTargetingIntel, fetchTargetingIntelByCompetitorId
\* called with the returned id (the returned row's id, or its competitor_id, the
\* column the function looks up) and answered by the store returns the data
\* that was written.
C12_RoundTrip ==
  [][(/\ last.op = "createTargetingIntel"
      /\ last.value.kind = "row"
      /\ last'.op = "fetchTargetingIntelByCompetitorId"
      /\ last'.cid \in {last.value.row.id, last.value.row.competitor_id}
      /\ last'.resp.outcome = "answered")
       => /\ last'.value.kind = "row"
          /\ last'.value.row.id = last.value.row.id
          /\ last'.value.row.competitor_id = last.value.row.competitor_id
          /\ last'.value.row.competitor_name = last.value.row.competitor_name]_vars

\* C19: with the gateway available, every call of a read operation and every
\* call of createTargetingIntel makes exactly one gateway round trip, also when
\* the round trip fails.
C19_OneRoundTrip ==
  (connected /\ last.op \in ReadOps \cup {"createTargetingIntel"}) => last.calls = 1

C19_Witness ==
  /\ connected
  /\ last.op \in {"createTargetingIntel", "fetchSummaryMetrics"}
  /\ last.resp.outcome = "failed"
  /\ last.calls = 1

\* C20: a createTargetingIntel that succeeds adds exactly one row to
\* targeting_intel, made of the input fields and the two client timestamps,
\* and returns that row.
C20_CreateAddsOneRow ==
  [][(last'.op = "createTargetingIntel" /\ last'.value.kind = "row")
       => LET r == last'.value.row
          IN /\ r \notin targeting_intel
             /\ targeting_intel' = targeting_intel \cup {r}
             /\ r.competitor_id = last'.cid
             /\ r.competitor_name = last'.name
             /\ r.created_at \in Times
             /\ r.updated_at \in Times
             /\ r # mockTargetingIntelData]_vars

C20_Witness ==
  /\ last.op = "createTargetingIntel"
  /\ last.value.kind = "row"
  /\ last.value.row \in targeting_intel
  /\ Cardinality(targeting_intel) >= 2

(***************************************************************************)
(* Frame properties                                                        *)
(***************************************************************************)
ProbeOps == {"testDatabaseConnection", "testTargetingIntelConnection"}

\* C23: the read operations and the two probes leave the stored rows as they
\* were; only createTargetingIntel changes the store.
C23_ReadsAndProbesLeaveStore ==
  [][/\ last'.op \in ReadOps \cup ProbeOps =>
          UNCHANGED <<summary_metrics, daily_metrics, targeting_intel>>
     /\ <<summary_metrics, daily_metrics, targeting_intel>>'
          # <<summary_metrics, daily_metrics, targeting_intel>> =>
          last'.op = "createTargetingIntel"]_vars

C23_Witness ==
  /\ connected
  /\ last.op = "testTargetingIntelConnection"
  /\ last.value.probe.connected
  /\ last.value.probe.recordCount = Cardinality(targeting_intel)
  /\ Cardinality(targeting_intel) >= 1

\* C24: a createTargetingIntel that returns null has added no row: the set of
\* targeting rows is the same as before the call.
C24_FailedCreateStoresNothing ==
  [][(last'.op = "createTargetingIntel" /\ last'.value = Null)
       => targeting_intel' = targeting_intel]_vars

(***************************************************************************)
(* Properties of the components                                            *)
(***************************************************************************)
LoadInFlight == \E i \in RunIds : adSurveillance.runs[i].pc = "loading"

\* C22: when overlapping loadData invocations of AdSurveillance have all
\* completed, summaryData and dailyMetrics are the values of the invocation
\* whose responses arrived last, whichever was issued last.
C22_LastArrivedWins ==
  (adSurveillance.issued >= 2 /\ ~LoadInFlight) =>
    /\ adSurveillance.summaryData = adSurveillance.received.summary
    /\ adSurveillance.dailyMetrics = adSurveillance.received.daily

C22_Witness ==
  /\ connected
  /\ adSurveillance.issued >= 2
  /\ ~LoadInFlight
  /\ adSurveillance.arrived < adSurveillance.issued
  /\ adSurveillance.summaryData = adSurveillance.received.summary

\* C25: in AdSurveillance the loading flag is true whenever a loadData
\* invocation is in flight.
C25_LoadingWhileInFlight == LoadInFlight => adSurveillance.loading

\* C26: in AdSurveillance, once an initialization has completed with dbStatus
\* 'connected', summaryData is a row of the store and not the mock; and dbStatus
\* is 'disconnected' whenever summaryData is the mock.
C26_ConnectedShowsStoredData ==
  LET ad == adSurveillance
      initialized == /\ \E i \in RunIds : ad.runs[i].kind = "initialize"
                                          /\ ad.runs[i].pc = "done"
                     /\ \A i \in RunIds : ad.runs[i].pc \in {"idle", "done"}
  IN initialized =>
       /\ ad.dbStatus = "connected" =>
            (ad.summaryData.kind = "row" /\ ad.summaryData.row \in summary_metrics)
       /\ ad.summaryData = Row(mockSummaryMetrics) => ad.dbStatus = "disconnected"

\* C27: if every round trip comes back, every loadData invocation of
\* AdSurveillance and of TargetingIntel sets loading to false in the end, and
\* the error state of TargetingIntel is never set.
C27_LoadsFinish ==
  /\ \A i \in RunIds :
       (adSurveillance.runs[i].pc = "loading")
         ~> (adSurveillance.runs[i].pc = "done" /\ ~adSurveillance.loading)
  /\ (targetingIntelView.pc = "loading")
       ~> (targetingIntelView.pc = "shown" /\ ~targetingIntelView.loading)
  /\ [](~targetingIntelView.error)

C27_Witness ==
  /\ connected
  /\ targetingIntelView.pc = "shown" /\ ~targetingIntelView.loading
  /\ ~targetingIntelView.error
  /\ \E i \in RunIds : adSurveillance.runs[i].pc = "done" /\ adSurveillance.runs[i].load # 0
  /\ ~adSurveillance.loading

(***************************************************************************)
(* C28: for every interleaving of concurrent signups, signup never leaves  *)
(* two rows in users with the same lower-cased, trimmed email.             *)
(***************************************************************************)
C28_NoDuplicateEmails ==
  \A u, v \in auth.users :
    NormalEmail(u.email) = NormalEmail(v.email) => u = v

C30_CallbackSessionRestored ==
  [][(/\ auth.callback.pc = "done"
      /\ auth.callback.stored # Null
      /\ auth.callback.startedEmpty
      /\ auth.storage.user = auth.callback.stored
      /\ auth'.result = Success("mount"))
       => (/\ auth'.user # Null
           /\ auth'.user = Row(Parse(auth.callback.stored))
           /\ ~auth'.isLoading)]_vars

====
